---------------------------- MODULE Spec2Model ----------------------------
(***************************************************************************)
(* python-configuration: Configuration (a flat store of dotted key paths)  *)
(* and ConfigurationSet (an ordered list of Configuration layers).         *)
(*                                                                         *)
(* Keys are Python strings and are modelled as TLA+ strings; startswith,   *)
(* slicing, split(".") and lower() are computed character by character.    *)
(* Python values are tagged records:                                       *)
(*   Scalar(n)        a non-mapping value                                  *)
(*   Dict(d)          a plain dict (d is a function from keys to values)   *)
(*   Cfg(d, lc)       a Configuration object with _config d, _lowercase lc *)
(*   Raise(e, arg)    an exception of class e leaving the call             *)
(*   Str(s), Bool(b)  a string and a boolean, where the text matters       *)
(*                                                                         *)
(* Specifications:                                                         *)
(*   SpecConfiguration  one Configuration and its methods                  *)
(*   Spec               a ConfigurationSet over layers held in the heap    *)
(*   SpecCopy           a ConfigurationSet and the copy taken of it        *)
(*   SpecFlatten        _flatten_dict and copy on nested mappings          *)
(*   SpecViews          keys(), values() and items() of a Configuration    *)
(*   SpecBool           as_bool and get_bool on stored strings             *)
(*   SpecDoppler        the cache of a DopplerConfiguration over time      *)
(*   SpecConfig         config() and config_from_json over a file system   *)
(***************************************************************************)
EXTENDS Integers, Sequences, FiniteSets, TLC

VARIABLES
    _config,      \* Configuration._config of the store under test
    _lowercase,   \* Configuration._lowercase of the store under test
    heap,         \* the Configuration objects held as layers: id -> Cfg
    _configs,     \* ConfigurationSet._configs: a list of references into heap
    _writable,    \* ConfigurationSet._writable
    copy,         \* the ConfigurationSet returned by view.copy(), once taken
    doppler,      \* the cache fields of the DopplerConfiguration under test
    env,          \* outside the process: the clock, the Doppler service, the files
    last          \* the last call made and what it returned or raised

vars == <<_config, _lowercase, heap, _configs, _writable, copy, doppler, env, last>>

---------------------------------------------------------------------------
(* Bounds of the model *)

\* a write is explored only while the written store keeps at most this many keys
MaxKeys == 2
\* a ConfigurationSet is constructed from at most this many layers
MaxLayers == 2
\* a write to a ConfigurationSet is explored only while its writable layer
\* keeps at most this many keys
MaxWritableKeys == 2

---------------------------------------------------------------------------
(* Python values *)

Scalar(n) == [t |-> "scalar", v |-> n]
Dict(d) == [t |-> "dict", d |-> d]
Cfg(d, lc) == [t |-> "Configuration", _config |-> d, _lowercase |-> lc]
Raise(e, arg) == [t |-> "raise", exc |-> e, arg |-> arg]
None == [t |-> "None"]

IsDict(v) == v.t = "dict"
IsConfiguration(v) == v.t = "Configuration"
IsRaise(v) == v.t = "raise"
IsScalar(v) == v.t = "scalar"

EmptyDict == [k \in {} |-> None]

\* dict.update(new) on old: the keys of new are written, the others are kept
DictUpdate(old, new) == new @@ old

\* d.get(k, default)
DictGet(d, k, default) == IF k \in DOMAIN d THEN d[k] ELSE default

---------------------------------------------------------------------------
(* Python strings *)

UpperCase == "ABCDEFGHIJKLMNOPQRSTUVWXYZ"
LowerCase == "abcdefghijklmnopqrstuvwxyz"

CharAt(s, i) == SubSeq(s, i, i)

LowerChar(c) ==
    IF \E i \in 1..Len(UpperCase) : CharAt(UpperCase, i) = c
    THEN CharAt(LowerCase, CHOOSE i \in 1..Len(UpperCase) : CharAt(UpperCase, i) = c)
    ELSE c

\* str.lower()
RECURSIVE Lower(_)
Lower(s) ==
    IF Len(s) = 0 THEN s
    ELSE LowerChar(CharAt(s, 1)) \o Lower(SubSeq(s, 2, Len(s)))

\* k.startswith(p)
StartsWith(k, p) == Len(k) >= Len(p) /\ SubSeq(k, 1, Len(p)) = p

\* k[n:]
SliceFrom(k, n) == SubSeq(k, n + 1, Len(k))

\* the index of the first "." in s, 0 when there is none
RECURSIVE FindDot(_, _)
FindDot(s, i) ==
    IF i > Len(s) THEN 0
    ELSE IF CharAt(s, i) = "." THEN i
    ELSE FindDot(s, i + 1)

\* s.split(".")
RECURSIVE Split(_)
Split(s) ==
    LET i == FindDot(s, 1)
    IN  IF i = 0 THEN <<s>>
        ELSE <<SubSeq(s, 1, i - 1)>> \o Split(SliceFrom(s, i))

\* ".".join(parts)
RECURSIVE Join(_)
Join(parts) ==
    IF Len(parts) = 0 THEN ""
    ELSE IF Len(parts) = 1 THEN parts[1]
    ELSE parts[1] \o "." \o Join(Tail(parts))

---------------------------------------------------------------------------
(* Configuration: the pure part of each method, on (_lowercase, _config) *)

\* Where several keys of a mapping are rewritten to the same key, Python keeps
\* the one written last: in insertion order for d.items(), in hash order for
\* the set `nested`.  Every mapping explored here rewrites at most one key to
\* each result key (OrderFree below), so the CHOOSE in the comprehensions has
\* exactly one candidate and the order plays no part.

\* Configuration._filter_dict
FilterDict(lowercase, d, prefix) ==
    LET matching == {k \in DOMAIN d : StartsWith(k, prefix \o ".")}
        strip(k) == IF lowercase
                    THEN Lower(SliceFrom(k, Len(prefix) + 1))
                    ELSE SliceFrom(k, Len(prefix) + 1)
    IN  [r \in {strip(k) : k \in matching} |->
            d[CHOOSE k \in matching : strip(k) = r]]

\* _flatten_dict expanding the first level only: a mapping found one level
\* further down is kept as a value
FlattenDictOneLevel(lowercase, d) ==
    LET fold(k) == IF lowercase THEN Lower(k) ELSE k
        nested == {k \in DOMAIN d : IsDict(d[k])}
    IN  LET sub == [k \in nested |-> d[k].d]
            leafkeys == UNION {{<<k, ki>> : ki \in DOMAIN sub[k]} : k \in nested}
            joined(kk) == fold(kk[1]) \o "." \o fold(kk[2])
            result == [r \in {joined(kk) : kk \in leafkeys} |->
                          LET kk == CHOOSE kk \in leafkeys : joined(kk) = r
                          IN  sub[kk[1]][kk[2]]]
            plain == DOMAIN d \ nested
            scalars == [r \in {fold(k) : k \in plain} |->
                           d[CHOOSE k \in plain : fold(k) = r]]
        IN  DictUpdate(result, scalars)

\* Configuration._flatten_dict
RECURSIVE FlattenDict(_, _)
FlattenDict(lowercase, d) ==
    LET fold(k) == IF lowercase THEN Lower(k) ELSE k
        nested == {k \in DOMAIN d : IsDict(d[k])}
    IN  LET sub == [k \in nested |-> FlattenDict(lowercase, d[k].d)]
            leafkeys == UNION {{<<k, ki>> : ki \in DOMAIN sub[k]} : k \in nested}
            joined(kk) == fold(kk[1]) \o "." \o kk[2]
            result == [r \in {joined(kk) : kk \in leafkeys} |->
                          LET kk == CHOOSE kk \in leafkeys : joined(kk) = r
                          IN  sub[kk[1]][kk[2]]]
            plain == DOMAIN d \ nested
            scalars == [r \in {fold(k) : k \in plain} |->
                           d[CHOOSE k \in plain : fold(k) = r]]
        IN  DictUpdate(result, scalars)

\* the body of the while loop of _get_subset, on the remaining prefixes
RECURSIVE WalkPrefixes(_, _, _)
WalkPrefixes(lowercase, d, prefixes) ==
    IF Len(prefixes) = 0 THEN Dict(d)
    ELSE LET p == prefixes[1]
             new_d == FilterDict(lowercase, d, p)
         IN  IF new_d = EmptyDict
             THEN IF Len(prefixes) = 1
                  THEN DictGet(d, p, Dict(EmptyDict))
                  ELSE Dict(EmptyDict)
             ELSE WalkPrefixes(lowercase, new_d, Tail(prefixes))

\* _get_subset looking for the exact key before the keys under the prefix
GetSubsetExactFirst(lowercase, config, prefix) ==
    LET matching == {k \in DOMAIN config : StartsWith(k, prefix \o ".")}
        strip(k) == SliceFrom(k, Len(prefix) + 1)
        d == [r \in {strip(k) : k \in matching} |->
                 config[CHOOSE k \in matching : strip(k) = r]]
    IN  IF prefix \in DOMAIN config THEN config[prefix] ELSE Dict(d)

\* Configuration._get_subset
GetSubset(lowercase, config, prefix) ==
    LET matching == {k \in DOMAIN config : StartsWith(k, prefix \o ".")}
        strip(k) == SliceFrom(k, Len(prefix) + 1)
        d == [r \in {strip(k) : k \in matching} |->
                 config[CHOOSE k \in matching : strip(k) = r]]
    IN  IF d = EmptyDict
        THEN LET prefixes == Split(prefix)
             IN  IF Len(prefixes) = 1
                 THEN DictGet(config, prefix, Dict(EmptyDict))
                 ELSE WalkPrefixes(lowercase, config, prefixes)
        ELSE Dict(d)

\* Configuration.__init__
NewConfiguration(config_, lowercase_keys) ==
    Cfg(FlattenDict(lowercase_keys, config_), lowercase_keys)

\* Configuration.__getitem__: the value, a sub-Configuration, or KeyError
GetItem(lowercase, config, item) ==
    LET v == GetSubset(lowercase, config, item)
    IN  IF v = Dict(EmptyDict) THEN Raise("KeyError", item)
        ELSE IF IsDict(v) THEN NewConfiguration(v.d, FALSE)
        ELSE v

\* update replacing the stored mapping instead of merging into it
UpdateReplacing(lowercase, config, other) == FlattenDict(lowercase, other)

\* Configuration.update: the new _config
Update(lowercase, config, other) ==
    DictUpdate(config, FlattenDict(lowercase, other))

\* __setitem__ dropping the keys under the key when it stores a scalar
SetItemDroppingSubtree(lowercase, config, key, value) ==
    LET kept == IF IsDict(value) THEN DOMAIN config
                ELSE {k \in DOMAIN config : ~StartsWith(k, key \o ".")}
    IN  DictUpdate([k \in kept |-> config[k]],
                   FlattenDict(lowercase, (key :> value)))

\* Configuration.__setitem__: the new _config
SetItem(lowercase, config, key, value) ==
    Update(lowercase, config, (key :> value))

\* __delitem__ matching the prefix without the "." separator
DelMatchesNoSeparator(lowercase, config, prefix) ==
    {k \in DOMAIN config :
        LET kl == IF lowercase THEN Lower(k) ELSE k
        IN  kl = prefix \/ StartsWith(kl, prefix)}

\* the list `remove` built by Configuration.__delitem__
DelMatches(lowercase, config, prefix) ==
    {k \in DOMAIN config :
        LET kl == IF lowercase THEN Lower(k) ELSE k
        IN  kl = prefix \/ StartsWith(kl, prefix \o ".")}

\* Configuration.__delitem__: the new _config (unchanged when it raises)
DelItem(lowercase, config, prefix) ==
    LET remove == DelMatches(lowercase, config, prefix)
    IN  [k \in DOMAIN config \ remove |-> config[k]]

\* what Configuration.__delitem__ returns or raises
DelItemResult(lowercase, config, prefix) ==
    IF DelMatches(lowercase, config, prefix) = {}
    THEN Raise("KeyError", prefix)
    ELSE None

\* Configuration.pop: the new _config
Pop(lowercase, config, prefix, value) ==
    IF IsRaise(GetItem(lowercase, config, prefix)) THEN config
    ELSE DelItem(lowercase, config, prefix)

\* what Configuration.pop returns or raises
PopResult(lowercase, config, prefix, value) ==
    LET got == GetItem(lowercase, config, prefix)
        deleted == DelItemResult(lowercase, config, prefix)
    IN  IF IsRaise(got)
        THEN IF value = None THEN got ELSE value
        ELSE IF IsRaise(deleted) /\ got = None THEN deleted ELSE got

\* setdefault storing the default under the key as given, without case folding
SetDefaultUnfolded(lowercase, config, key, default) ==
    IF IsRaise(GetItem(lowercase, config, key))
    THEN DictUpdate(config, FlattenDict(FALSE, (key :> default)))
    ELSE config

\* Configuration.setdefault: the new _config
SetDefault(lowercase, config, key, default) ==
    IF IsRaise(GetItem(lowercase, config, key))
    THEN SetItem(lowercase, config, key, default)
    ELSE config

\* what Configuration.setdefault returns or raises
SetDefaultResult(lowercase, config, key, default) ==
    GetItem(lowercase, SetDefault(lowercase, config, key, default), key)

\* no two nested branches, and no two scalar entries, of d flatten to one key
RECURSIVE OrderFree(_, _)
OrderFree(lowercase, d) ==
    LET fold(k) == IF lowercase THEN Lower(k) ELSE k
        nested == {k \in DOMAIN d : IsDict(d[k])}
        plain == DOMAIN d \ nested
        leaves(k) == {fold(k) \o "." \o ki :
                         ki \in DOMAIN FlattenDict(lowercase, d[k].d)}
    IN  /\ \A k1, k2 \in plain : fold(k1) = fold(k2) => k1 = k2
        /\ \A k1, k2 \in nested : leaves(k1) \cap leaves(k2) # {} => k1 = k2
        /\ \A k \in nested : OrderFree(lowercase, d[k].d)

---------------------------------------------------------------------------
(* The inputs explored *)

\* {"a": {"b": 1, "c": 2}} style literals
D1(k1, v1) == Dict(k1 :> v1)
D2(k1, v1, k2, v2) == Dict((k1 :> v1) @@ (k2 :> v2))
D3(k1, v1, k2, v2, k3, v3) == Dict((k1 :> v1) @@ (k2 :> v2) @@ (k3 :> v3))

\* the mappings a Configuration under test is constructed from
InitMappings ==
    { EmptyDict,
      D3("a.b.c", Scalar(1), "a.b.d", Scalar(2), "a.x", Scalar(3)).d,
      D2("a", Scalar(1), "a.b", Scalar(2)).d,
      D2("a.b", Scalar(1), "a.bc", Scalar(2)).d,
      D1("A", D1("B", Scalar(1))).d,
      D2("a", D1("b", Scalar(1)), "b", Scalar(2)).d }

\* the key paths passed to get, set and delete
Paths == {"a", "a.b", "a.bc", "A"}

\* the values passed to set
SetValues ==
    { Scalar(1), Scalar(2),
      D1("b", Scalar(2)),
      Dict(EmptyDict) }

\* the mappings passed to update
UpdateMappings ==
    { D1("A", D1("B", D1("c", Scalar(1)))).d,
      D2("a", Scalar(2), "a.bc", Scalar(1)).d }

\* the defaults passed to setdefault
SetDefaults == { Scalar(1), D1("b", Scalar(2)) }

\* the fallback values passed to pop
PopValues == { None, Scalar(2) }

---------------------------------------------------------------------------
(* A Configuration on its own *)

NoCall == [op |-> "init"]

\* no DopplerConfiguration is under test, and nothing outside the process
\* is read
NoDoppler == [t |-> "None"]
NoEnv == [t |-> "None"]

\* no copy of a ConfigurationSet has been taken
NoCopy == [t |-> "None"]

InitConfiguration ==
    /\ _lowercase \in BOOLEAN
    /\ \E m \in InitMappings :
          /\ OrderFree(_lowercase, m)
          /\ _config = FlattenDict(_lowercase, m)
    /\ heap = <<>>
    /\ _configs = <<>>
    /\ _writable = FALSE
    /\ copy = NoCopy
    /\ doppler = NoDoppler
    /\ env = NoEnv
    /\ last = NoCall

\* cfg[item]
ConfigurationGetItem(item) ==
    /\ last' = [op |-> "getitem", key |-> item,
                result |-> GetItem(_lowercase, _config, item)]
    /\ UNCHANGED <<copy, doppler, env, _config, _lowercase, heap, _configs, _writable>>

\* cfg[key] = value
ConfigurationSetItem(key, value) ==
    /\ OrderFree(_lowercase, (key :> value))
    /\ _config' = SetItem(_lowercase, _config, key, value)
    /\ Cardinality(DOMAIN _config') <= MaxKeys
    /\ last' = [op |-> "setitem", key |-> key, value |-> value, result |-> None]
    /\ UNCHANGED <<copy, doppler, env, _lowercase, heap, _configs, _writable>>

\* cfg.update(other)
ConfigurationUpdate(other) ==
    /\ OrderFree(_lowercase, other)
    /\ _config' = Update(_lowercase, _config, other)
    /\ Cardinality(DOMAIN _config') <= MaxKeys
    /\ last' = [op |-> "update", other |-> other, result |-> None]
    /\ UNCHANGED <<copy, doppler, env, _lowercase, heap, _configs, _writable>>

\* del cfg[prefix]
ConfigurationDelItem(prefix) ==
    /\ _config' = DelItem(_lowercase, _config, prefix)
    /\ last' = [op |-> "delitem", key |-> prefix,
                result |-> DelItemResult(_lowercase, _config, prefix)]
    /\ UNCHANGED <<copy, doppler, env, _lowercase, heap, _configs, _writable>>

\* cfg.clear()
ConfigurationClear ==
    /\ _config' = EmptyDict
    /\ last' = [op |-> "clear", result |-> None]
    /\ UNCHANGED <<copy, doppler, env, _lowercase, heap, _configs, _writable>>

\* cfg.setdefault(key, default)
ConfigurationSetDefault(key, default) ==
    /\ OrderFree(_lowercase, (key :> default))
    /\ _config' = SetDefault(_lowercase, _config, key, default)
    /\ Cardinality(DOMAIN _config') <= MaxKeys
    /\ last' = [op |-> "setdefault", key |-> key, value |-> default,
                result |-> SetDefaultResult(_lowercase, _config, key, default)]
    /\ UNCHANGED <<copy, doppler, env, _lowercase, heap, _configs, _writable>>

\* cfg.pop(prefix, value)
ConfigurationPop(prefix, value) ==
    /\ _config' = Pop(_lowercase, _config, prefix, value)
    /\ last' = [op |-> "pop", key |-> prefix, value |-> value,
                result |-> PopResult(_lowercase, _config, prefix, value)]
    /\ UNCHANGED <<copy, doppler, env, _lowercase, heap, _configs, _writable>>

NextConfiguration ==
    \/ \E item \in Paths : ConfigurationGetItem(item)
    \/ \E key \in Paths, value \in SetValues : ConfigurationSetItem(key, value)
    \/ \E other \in UpdateMappings : ConfigurationUpdate(other)
    \/ \E prefix \in Paths : ConfigurationDelItem(prefix)
    \/ \E key \in Paths, default \in SetDefaults :
          ConfigurationSetDefault(key, default)
    \/ \E prefix \in Paths, value \in PopValues : ConfigurationPop(prefix, value)
    \/ ConfigurationClear

SpecConfiguration == InitConfiguration /\ [][NextConfiguration]_vars

---------------------------------------------------------------------------
(* ConfigurationSet: the pure part of each method *)

Range(seq) == {seq[i] : i \in 1..Len(seq)}

Min(a, b) == IF a < b THEN a ELSE b

List(items) == [t |-> "list", items |-> items]

\* Configuration.keys(levels); levels = 0 stands for levels=None
Keys(lowercase, config, levels) ==
    LET literal == GetItem(lowercase, config, "keys")
        first(x) == LET parts == Split(x)
                    IN  IF levels = 0 THEN Join(parts)
                        ELSE Join(SubSeq(parts, 1, Min(levels, Len(parts))))
    IN  IF IsRaise(literal)
        THEN List({first(x) : x \in DOMAIN config})
        ELSE literal

\* iter(obj) for what keys() returned: Configuration.__iter__ is
\* iter(self.keys()), a list yields its items, a scalar is not iterable
RECURSIVE IterKeys(_)
IterKeys(obj) ==
    IF obj.t = "list" THEN obj
    ELSE IF IsConfiguration(obj)
         THEN IterKeys(Keys(obj._lowercase, obj._config, 0))
    ELSE Raise("TypeError", "keys")

\* dict.update(v) with v a Configuration: v is not a dict, so the update goes
\* through the mapping protocol, for k in v.keys(): result[k] = v[k]
DictUpdateFromConfiguration(result, v) ==
    LET ks == IterKeys(Keys(v._lowercase, v._config, 0))
    IN  IF IsRaise(ks) THEN ks
        ELSE LET item(k) == GetItem(v._lowercase, v._config, k)
                 failing == {k \in ks.items : IsRaise(item(k))}
             IN  IF failing # {}
                 THEN item(CHOOSE k \in failing : TRUE)
                 ELSE Dict(DictUpdate(result.d, [k \in ks.items |-> item(k)]))

\* for v in values[::-1]: result.update(v), skipping what is no Configuration
RECURSIVE MergeValues(_, _)
MergeValues(result, values) ==
    IF IsRaise(result) \/ Len(values) = 0 THEN result
    ELSE LET v == values[Len(values)]
             rest == SubSeq(values, 1, Len(values) - 1)
         IN  IF IsConfiguration(v)
             THEN MergeValues(DictUpdateFromConfiguration(result, v), rest)
             ELSE MergeValues(result, rest)

\* the list `values` of _from_configs("__getitem__", item)
RECURSIVE GetItemValues(_, _)
GetItemValues(layers, item) ==
    IF Len(layers) = 0 THEN <<>>
    ELSE LET r == GetItem(layers[1]._lowercase, layers[1]._config, item)
         IN  (IF IsRaise(r) THEN <<>> ELSE <<r>>)
                 \o GetItemValues(Tail(layers), item)

\* _from_configs returning the value of the last answering layer
FromConfigsLastValue(layers, item) ==
    LET values == GetItemValues(layers, item)
    IN  IF Len(values) = 0 THEN Raise("KeyError", item)
        ELSE IF IsConfiguration(values[1])
             THEN LET result == MergeValues(Dict(EmptyDict), values)
                  IN  IF IsRaise(result) THEN result
                      ELSE NewConfiguration(result.d, FALSE)
        ELSE values[Len(values)]

\* ConfigurationSet._from_configs("__getitem__", item) on a list of layers
FromConfigs(layers, item) ==
    LET values == GetItemValues(layers, item)
        failed == {i \in 1..Len(layers) :
                      IsRaise(GetItem(layers[i]._lowercase, layers[i]._config, item))}
        last_err == IF failed = {} THEN Raise("Exception", "")
                    ELSE LET i == CHOOSE i \in failed : \A j \in failed : j <= i
                         IN  GetItem(layers[i]._lowercase, layers[i]._config, item)
    IN  IF Len(values) = 0 THEN last_err
        ELSE IF IsConfiguration(values[1])
             THEN LET result == MergeValues(Dict(EmptyDict), values)
                  IN  IF IsRaise(result) THEN result
                      ELSE NewConfiguration(result.d, FALSE)
        ELSE values[1]

\* as_dict merging the layers highest priority first
RECURSIVE AsDictForward(_)
AsDictForward(layers) ==
    IF Len(layers) = 0 THEN EmptyDict
    ELSE DictUpdate(layers[1]._config, AsDictForward(Tail(layers)))

\* ConfigurationSet.as_dict on a list of layers
RECURSIVE AsDict(_)
AsDict(layers) ==
    IF Len(layers) = 0 THEN EmptyDict
    ELSE DictUpdate(AsDict(Tail(layers)), layers[1]._config)

\* the layers of the set, highest priority first
Layers == [i \in 1..Len(_configs) |-> heap[_configs[i]]]

\* ConfigurationSet.__getitem__
SetGetItem(item) == FromConfigs(Layers, item)

\* ConfigurationSet.get on a list of layers: self[key], the default on any error
SetGet(layers, key, default) ==
    LET r == FromConfigs(layers, key)
    IN  IF IsRaise(r) THEN default ELSE r

---------------------------------------------------------------------------
(* A ConfigurationSet over layers held in the heap *)

\* the Configuration objects a ConfigurationSet is constructed from
LayerChoices ==
    { NewConfiguration(D2("a.b", Scalar(9), "a.d", Scalar(4)).d, FALSE),
      NewConfiguration(D2("a.b", Scalar(1), "a.b.c", Scalar(2)).d, FALSE),
      NewConfiguration(D1("a", Scalar(3)).d, FALSE),
      NewConfiguration(D1("A", D1("KEYS", Scalar(1))).d, TRUE) }

\* the key paths passed to get, set and delete on the set
SetPaths == {"a", "a.b", "a.d"}

\* the values passed to set on the set
SetSetValues == {Scalar(5), D1("b", Scalar(6))}

\* the mappings passed to update on the set
SetUpdateMappings == {D1("a", D1("d", Scalar(7))).d}

InitSet ==
    /\ \E n \in 1..MaxLayers :
          /\ heap \in [1..n -> LayerChoices]
          /\ _configs = [i \in 1..n |-> i]
    /\ _writable = FALSE
    /\ copy = NoCopy
    /\ doppler = NoDoppler
    /\ env = NoEnv
    /\ _config = EmptyDict
    /\ _lowercase = FALSE
    /\ last = NoCall

\* id of the next object allocated
NewId == Len(heap) + 1

\* the heap and list after ConfigurationSet._writable_config: the writable
\* layer is _configs[0] afterwards
WritableHeap ==
    IF ~_writable
    THEN LET lowercase == Len(_configs) > 0 /\ heap[_configs[1]]._lowercase
         IN  Append(heap, NewConfiguration(EmptyDict, lowercase))
    ELSE heap

\* _writable_config without the insert of a new layer
WritableConfigsNoInsert == _configs

WritableConfigs ==
    IF ~_writable THEN <<NewId>> \o _configs ELSE _configs

\* view[item]
SetGetItemCall(item) ==
    /\ last' = [op |-> "getitem", key |-> item, result |-> SetGetItem(item)]
    /\ UNCHANGED <<copy, doppler, env, _config, _lowercase, heap, _configs, _writable>>

\* view.as_dict()
SetAsDictCall ==
    /\ last' = [op |-> "as_dict", result |-> Dict(AsDict(Layers))]
    /\ UNCHANGED <<copy, doppler, env, _config, _lowercase, heap, _configs, _writable>>

\* view[key] = value
SetSetItem(key, value) ==
    LET h == WritableHeap
        cfg == WritableConfigs[1]
        new == SetItem(h[cfg]._lowercase, h[cfg]._config, key, value)
    IN  /\ OrderFree(h[cfg]._lowercase, (key :> value))
        /\ Cardinality(DOMAIN new) <= MaxWritableKeys
        /\ heap' = [h EXCEPT ![cfg]._config = new]
        /\ _configs' = WritableConfigs
        /\ _writable' = TRUE
        /\ last' = [op |-> "setitem", key |-> key, value |-> value,
                    result |-> None]
        /\ UNCHANGED <<copy, doppler, env, _config, _lowercase>>

\* update leaving the _writable flag as it was
SetUpdateFlagUnset(other) ==
    LET h == WritableHeap
        cfg == WritableConfigs[1]
        new == Update(h[cfg]._lowercase, h[cfg]._config, other)
    IN  /\ OrderFree(h[cfg]._lowercase, other)
        /\ Cardinality(DOMAIN new) <= MaxWritableKeys
        /\ heap' = [h EXCEPT ![cfg]._config = new]
        /\ _configs' = WritableConfigs
        /\ _writable' = _writable
        /\ last' = [op |-> "update", other |-> other, result |-> None]
        /\ UNCHANGED <<copy, doppler, env, _config, _lowercase>>

\* view.update(other)
SetUpdate(other) ==
    LET h == WritableHeap
        cfg == WritableConfigs[1]
        new == Update(h[cfg]._lowercase, h[cfg]._config, other)
    IN  /\ OrderFree(h[cfg]._lowercase, other)
        /\ Cardinality(DOMAIN new) <= MaxWritableKeys
        /\ heap' = [h EXCEPT ![cfg]._config = new]
        /\ _configs' = WritableConfigs
        /\ _writable' = TRUE
        /\ last' = [op |-> "update", other |-> other, result |-> None]
        /\ UNCHANGED <<copy, doppler, env, _config, _lowercase>>

\* __delitem__ stopping at the first layer that held a matching key
SetDelItemFirstLayer(prefix) ==
    LET holding == {i \in 1..Len(_configs) :
                       ~IsRaise(DelItemResult(heap[_configs[i]]._lowercase,
                                              heap[_configs[i]]._config, prefix))}
        first == CHOOSE i \in holding : \A j \in holding : i <= j
    IN  /\ heap' = IF holding = {} THEN heap
                   ELSE [heap EXCEPT ![_configs[first]]._config =
                            DelItem(heap[_configs[first]]._lowercase, @, prefix)]
        /\ last' = [op |-> "delitem", key |-> prefix,
                    result |-> IF holding # {} THEN None
                               ELSE Raise("KeyError", "")]
        /\ UNCHANGED <<copy, doppler, env, _config, _lowercase, _configs, _writable>>

\* del view[prefix]
SetDelItem(prefix) ==
    LET removed == \E i \in 1..Len(_configs) :
                      ~IsRaise(DelItemResult(heap[_configs[i]]._lowercase,
                                             heap[_configs[i]]._config, prefix))
    IN  /\ heap' = [id \in DOMAIN heap |->
                       IF id \in Range(_configs)
                       THEN [heap[id] EXCEPT !._config =
                                DelItem(heap[id]._lowercase, @, prefix)]
                       ELSE heap[id]]
        /\ last' = [op |-> "delitem", key |-> prefix,
                    result |-> IF removed THEN None ELSE Raise("KeyError", "")]
        /\ UNCHANGED <<copy, doppler, env, _config, _lowercase, _configs, _writable>>

\* view.clear()
SetClear ==
    /\ heap' = [id \in DOMAIN heap |->
                   IF id \in Range(_configs)
                   THEN [heap[id] EXCEPT !._config = EmptyDict]
                   ELSE heap[id]]
    /\ last' = [op |-> "clear", result |-> None]
    /\ UNCHANGED <<copy, doppler, env, _config, _lowercase, _configs, _writable>>

Next ==
    \/ \E item \in SetPaths : SetGetItemCall(item)
    \/ SetAsDictCall
    \/ \E key \in SetPaths, value \in SetSetValues : SetSetItem(key, value)
    \/ \E other \in SetUpdateMappings : SetUpdate(other)
    \/ \E prefix \in SetPaths : SetDelItem(prefix)
    \/ SetClear

Spec == InitSet /\ [][Next]_vars

---------------------------------------------------------------------------
(* Claims about the ConfigurationSet, checked under Spec *)

\* what layer i on its own returns or raises for cfg[item]
LayerGetItem(i, item) == GetItem(Layers[i]._lowercase, Layers[i]._config, item)

\* the layers that do not fail on item, and the first of them
Answering(item) == {i \in 1..Len(_configs) : ~IsRaise(LayerGetItem(i, item))}
FirstOf(S) == CHOOSE i \in S : \A j \in S : i <= j

\* the layers that resolve item to a sub-view
SubViews(item) == {i \in Answering(item) : IsConfiguration(LayerGetItem(i, item))}

\* C1: a sub-tree read that several layers resolve to a sub-view (the first
\* answering layer among them) returns a view whose keys are the union of the
\* layers' stripped keys under the prefix, each key with the value of the
\* highest-priority layer that defines it.
C1_SubtreeMergeUnion ==
    \A p \in SetPaths :
        (/\ Cardinality(SubViews(p)) >= 2
         /\ FirstOf(Answering(p)) \in SubViews(p))
        => LET sub(i) == LayerGetItem(i, p)._config
               keys == UNION {DOMAIN sub(i) : i \in SubViews(p)}
               owner(k) == FirstOf({i \in SubViews(p) : k \in DOMAIN sub(i)})
           IN  /\ IsConfiguration(SetGetItem(p))
               /\ SetGetItem(p)._config = [k \in keys |-> sub(owner(k))[k]]

\* C2: a read whose first answering layer yields a scalar returns that scalar,
\* whatever the later layers hold for the key; when every layer fails the read
\* fails with the KeyError of the last layer.
C2_ScalarFirstMatch ==
    \A k \in SetPaths :
        IF Answering(k) = {}
        THEN SetGetItem(k) = LayerGetItem(Len(_configs), k)
        ELSE IsScalar(LayerGetItem(FirstOf(Answering(k)), k))
                => SetGetItem(k) = LayerGetItem(FirstOf(Answering(k)), k)

\* C2 witness: a scalar was read from a layer while a later layer answers the
\* same key differently
C2_Witness ==
    /\ last.op = "getitem"
    /\ IsScalar(last.result)
    /\ \E i, j \in Answering(last.key) :
          /\ i < j
          /\ LayerGetItem(i, last.key) = last.result
          /\ LayerGetItem(j, last.key) # last.result

\* C3: as_dict() has the union of the layers' keys, each key with the value of
\* the lowest-index layer that contains it.
C3_AsDictUnion ==
    LET d == AsDict(Layers)
        holds(k) == {i \in 1..Len(_configs) : k \in DOMAIN Layers[i]._config}
    IN  /\ DOMAIN d = UNION {DOMAIN Layers[i]._config : i \in 1..Len(_configs)}
        /\ \A k \in DOMAIN d : d[k] = Layers[FirstOf(holds(k))]._config[k]

\* C3 witness: as_dict() was called while two layers hold one key with
\* different values
C3_Witness ==
    /\ last.op = "as_dict"
    /\ \E i, j \in 1..Len(_configs) :
          \E k \in DOMAIN Layers[i]._config \cap DOMAIN Layers[j]._config :
              /\ i < j
              /\ Layers[i]._config[k] # Layers[j]._config[k]
              /\ last.result.d[k] = Layers[i]._config[k]

\* C4: a set or update writes to the one writable layer only: it is inserted
\* empty at index 0 by the first write, is the same object afterwards, and
\* every other layer keeps its content.
C4_WriteDispatch ==
    [][last'.op \in {"setitem", "update"} =>
        LET other == IF last'.op = "setitem"
                     THEN (last'.key :> last'.value) ELSE last'.other
        IN  /\ _writable'
            /\ IF _writable
               THEN /\ _configs' = _configs
                    /\ heap'[_configs[1]]._config =
                          Update(heap[_configs[1]]._lowercase,
                                 heap[_configs[1]]._config, other)
               ELSE /\ Tail(_configs') = _configs
                    /\ _configs'[1] \notin DOMAIN heap
                    /\ heap'[_configs'[1]]._config =
                          Update(heap'[_configs'[1]]._lowercase, EmptyDict, other)
            /\ \A id \in DOMAIN heap :
                  (~_writable \/ id # _configs[1]) => heap'[id] = heap[id]
    ]_vars

\* C4 witness: a set went to the writable layer at index 0, above the layers
\* the set was constructed from
C4_Witness ==
    /\ last.op = "setitem"
    /\ _writable
    /\ Len(_configs) >= 2
    /\ heap[_configs[1]]._config # EmptyDict
    /\ \E i \in 2..Len(_configs) : heap[_configs[i]]._config # EmptyDict

\* the keys of config equal to prefix or under it
Under(config, prefix) ==
    {k \in DOMAIN config : k = prefix \/ StartsWith(k, prefix \o ".")}

\* C9: delete on the set deletes in every layer; it succeeds iff some layer
\* held a matching key, after which no layer holds one and a read of the
\* prefix fails; it raises KeyError iff no layer matched, changing no layer.
C9_DeleteDispatch ==
    [][last'.op = "delitem" =>
        LET p == last'.key
            matched == \E i \in 1..Len(_configs) : Under(Layers[i]._config, p) # {}
        IN  /\ _configs' = _configs
            /\ IF matched
               THEN /\ last'.result = None
                    /\ \A id \in Range(_configs) :
                          /\ Under(heap'[id]._config, p) = {}
                          /\ DOMAIN heap'[id]._config =
                                DOMAIN heap[id]._config \ Under(heap[id]._config, p)
                          /\ \A k \in DOMAIN heap'[id]._config :
                                heap'[id]._config[k] = heap[id]._config[k]
                    /\ IsRaise(FromConfigs([i \in 1..Len(_configs') |->
                                               heap'[_configs'[i]]], p))
               ELSE /\ IsRaise(last'.result)
                    /\ last'.result.exc = "KeyError"
                    /\ heap' = heap
    ]_vars

\* C9 witness: a delete succeeded on a set of several layers and left keys
\* outside the prefix in place
C9_Witness ==
    /\ last.op = "delitem"
    /\ last.result = None
    /\ Len(_configs) >= 2
    /\ \E i \in 1..Len(_configs) : Layers[i]._config # EmptyDict

---------------------------------------------------------------------------
(* Claims about a Configuration on its own, checked under SpecConfiguration *)

\* the keys of config strictly under prefix, and the sub-view over them
Below(config, prefix) == {k \in DOMAIN config : StartsWith(k, prefix \o ".")}
SubView(config, prefix) ==
    Cfg([r \in {SliceFrom(k, Len(prefix) + 1) : k \in Below(config, prefix)} |->
            config[prefix \o "." \o r]], FALSE)

\* C5 as stated: an exact stored key returns its scalar even when keys under
\* it exist; a sub-view is returned only when there is no exact match; with
\* neither the read raises KeyError.
C5_ExactMatchFirst ==
    \A path \in Paths :
        GetItem(_lowercase, _config, path) =
            IF path \in DOMAIN _config THEN _config[path]
            ELSE IF Below(_config, path) # {} THEN SubView(_config, path)
            ELSE Raise("KeyError", path)

\* C5 amended: keys under path + "." take precedence: when any exist the
\* sub-view over them is returned, also when path is an exact stored key; the
\* scalar stored at path is returned only when no key lies under it; with
\* neither the read raises KeyError.
C5_PrefixMatchFirst ==
    \A path \in Paths :
        GetItem(_lowercase, _config, path) =
            IF Below(_config, path) # {} THEN SubView(_config, path)
            ELSE IF path \in DOMAIN _config THEN _config[path]
            ELSE Raise("KeyError", path)

\* C5 witness: a read of an exact stored key that also has keys under it
\* returned the sub-view
C5_Witness ==
    /\ last.op = "getitem"
    /\ last.key \in DOMAIN _config
    /\ Below(_config, last.key) # {}
    /\ last.result = SubView(_config, last.key)

\* C6: when get(k) raises KeyError, then after set(k, v) with a scalar v,
\* get(k) returns v, with or without case-folding.
C6_SetThenGet ==
    [][(/\ last'.op = "setitem"
        /\ IsScalar(last'.value)
        /\ IsRaise(GetItem(_lowercase, _config, last'.key)))
       => GetItem(_lowercase', _config', last'.key) = last'.value
    ]_vars

\* C7 as stated: after a scalar set(path, v) on a store holding keys under
\* path + ".", get(path) returns v.
C7_ScalarSetHidesSubtree ==
    [][(/\ last'.op = "setitem"
        /\ IsScalar(last'.value)
        /\ Below(_config, last'.key) # {})
       => GetItem(_lowercase', _config', last'.key) = last'.value
    ]_vars

\* C7 amended: a scalar set(path, v) on a store holding keys under path + "."
\* stores v at path and keeps every key under path + "." with its value, and
\* get(path) still returns the sub-view over those keys, not v.
C7_ScalarSetKeepsSubtree ==
    [][(/\ last'.op = "setitem"
        /\ IsScalar(last'.value)
        /\ Below(_config, last'.key) # {})
       => /\ last'.key \in DOMAIN _config'
          /\ _config'[last'.key] = last'.value
          /\ \A k \in Below(_config, last'.key) :
                k \in DOMAIN _config' /\ _config'[k] = _config[k]
          /\ GetItem(_lowercase', _config', last'.key) =
                SubView(_config, last'.key)
    ]_vars

\* C7 witness: a scalar was set at a path that has keys under it
C7_Witness ==
    /\ last.op = "setitem"
    /\ IsScalar(last.value)
    /\ last.key \in DOMAIN _config
    /\ _config[last.key] = last.value
    /\ Below(_config, last.key) # {}

\* C8: delete(path) removes the key equal to path and the keys under
\* path + ".", keeps every other key and value, and a second delete of the
\* path raises KeyError; when nothing matches it raises KeyError and the store
\* is unchanged.
C8_DeletePrefix ==
    [][last'.op = "delitem" =>
        LET p == last'.key
        IN  IF Under(_config, p) = {}
            THEN /\ last'.result = Raise("KeyError", p)
                 /\ _config' = _config
            ELSE /\ last'.result = None
                 /\ DOMAIN _config' = DOMAIN _config \ Under(_config, p)
                 /\ \A k \in DOMAIN _config' : _config'[k] = _config[k]
                 /\ IsRaise(DelItemResult(_lowercase', _config', p))
    ]_vars

\* C8 witness: delete("a.b") succeeded and the key "a.bc" is still stored
C8_Witness ==
    /\ last.op = "delitem"
    /\ last.key = "a.b"
    /\ last.result = None
    /\ "a.bc" \in DOMAIN _config

\* the keys written by set(path, value) for a nested mapping value
Written(lowercase, path, value) ==
    {path \o "." \o k : k \in DOMAIN FlattenDict(lowercase, value.d)}

\* C10 as stated: set(path, value) with a nested mapping writes exactly the
\* keys path + "." + k for the leaves k of flatten(value), and every other
\* stored key keeps its value.
C10_NestedSetWritesLeaves ==
    [][(last'.op = "setitem" /\ IsDict(last'.value)) =>
        LET flat == FlattenDict(_lowercase, last'.value.d)
            written == Written(_lowercase, last'.key, last'.value)
        IN  /\ DOMAIN _config' = DOMAIN _config \cup written
            /\ \A k \in DOMAIN flat :
                  _config'[last'.key \o "." \o k] = flat[k]
            /\ \A k \in DOMAIN _config \ written : _config'[k] = _config[k]
    ]_vars

\* C10 amended: the keys written are path + "." + k with path lowercased when
\* the store folds case; every other stored key, also under the same prefix,
\* keeps its value.
C10_NestedSetWritesFoldedLeaves ==
    [][(last'.op = "setitem" /\ IsDict(last'.value)) =>
        LET flat == FlattenDict(_lowercase, last'.value.d)
            path == IF _lowercase THEN Lower(last'.key) ELSE last'.key
            written == Written(_lowercase, path, last'.value)
        IN  /\ DOMAIN _config' = DOMAIN _config \cup written
            /\ \A k \in DOMAIN flat : _config'[path \o "." \o k] = flat[k]
            /\ \A k \in DOMAIN _config \ written : _config'[k] = _config[k]
    ]_vars

\* C10 witness: a nested mapping was set at "a", writing "a.b", and the key
\* "a.bc" under the same prefix is still stored
C10_Witness ==
    /\ last.op = "setitem"
    /\ last.key = "a"
    /\ IsDict(last.value)
    /\ "b" \in DOMAIN last.value.d
    /\ {"a.b", "a.bc"} \subseteq DOMAIN _config

---------------------------------------------------------------------------
(* C11 *)

\* C11: whatever mapping the store was constructed from and whatever
\* set/update/setdefault/delete/pop/clear calls followed, no value stored in
\* the flat mapping is itself a mapping
C11_NoMappingStored == \A k \in DOMAIN _config : ~IsDict(_config[k])

\* an update with a mapping nested two levels deep has stored its leaf
C11_Witness ==
    /\ last.op = "update"
    /\ \E k \in DOMAIN last.other :
          /\ IsDict(last.other[k])
          /\ \E ki \in DOMAIN last.other[k].d : IsDict(last.other[k].d[ki])
    /\ "A.B.c" \in DOMAIN _config

---------------------------------------------------------------------------
(* C12 *)

\* every stored key equals its lower-case form
AllKeysLower(config) == \A k \in DOMAIN config : Lower(k) = k

\* C12: in a store constructed with case folding, after construction and
\* after every set/update/setdefault/delete/pop/clear, every stored key is
\* entirely lower case; {"A": {"B": 1}} is stored as the sole key "a.b"; and
\* no operation changes the policy of the store
C12_CaseFolding ==
    /\ [](_lowercase => AllKeysLower(_config))
    /\ [](FlattenDict(TRUE, D1("A", D1("B", Scalar(1))).d) = ("a.b" :> Scalar(1)))
    /\ [][_lowercase' = _lowercase]_vars

\* a case-folding store was written through setdefault with an upper-case key
C12_Witness ==
    /\ _lowercase
    /\ last.op = "setdefault"
    /\ last.key = "A"
    /\ "a" \in DOMAIN _config

---------------------------------------------------------------------------
(* C13 *)

\* the call was a set or an update
WriteCall(call) == call.op \in {"setitem", "update"}

\* C13: the _writable flag of a ConfigurationSet is unset after construction,
\* is set by the first set or update and is never unset again; the step that
\* sets it inserts exactly one layer, empty before the write, at index 0, and
\* no other step changes the list of layers: n layers before the first write,
\* n + 1 after it and after every later read, set, update, delete or clear
C13_WritableFlag ==
    /\ ~_writable
    /\ [][/\ _writable => _writable'
          /\ WriteCall(last') => _writable'
          /\ (~_writable /\ _writable') =>
                /\ WriteCall(last')
                /\ Len(_configs') = Len(_configs) + 1
                /\ Tail(_configs') = _configs
                /\ _configs'[1] \notin Range(_configs)
          /\ (_writable' = _writable) => _configs' = _configs]_vars

\* a view built from MaxLayers layers was written and then deleted from, and
\* holds one layer more than it was built from
C13_Witness ==
    /\ _writable
    /\ last.op = "delitem"
    /\ Len(_configs) = MaxLayers + 1

---------------------------------------------------------------------------
(* Flattening on its own: _flatten_dict applied to nested mappings *)

\* a nested mapping under test has at most this many keys at its top level
MaxOuterKeys == 2

Leaves == { Scalar(1), Scalar(2) }
InnerKeys == { "b", "B" }
OuterKeys == { "a", "A", "a.b" }

\* the mappings found one level down: leaves under one or two keys, the empty
\* mapping, and one mapping holding a mapping itself
InnerMappings ==
    { Dict(f) : f \in UNION {[ks -> Leaves] : ks \in SUBSET InnerKeys} }
        \cup { D1("b", D1("c", Scalar(1))) }

\* the nested mappings flattened
NestedMappings ==
    UNION { [ks -> Leaves \cup InnerMappings] :
              ks \in {s \in SUBSET OuterKeys : Cardinality(s) <= MaxOuterKeys} }

\* the nested mapping a flat mapping stands for: the segments before the
\* first "." become the keys, the keys below them are nested one level down
RECURSIVE Unflatten(_)
Unflatten(flat) ==
    LET heads == {Split(k)[1] : k \in DOMAIN flat}
    IN  [h \in heads |->
            IF h \in DOMAIN flat THEN flat[h]
            ELSE Dict(Unflatten(FilterDict(FALSE, flat, h)))]

\* no key of the flat mapping is a leaf and a prefix of another key at once
Unflattenable(flat) ==
    \A k1, k2 \in DOMAIN flat : ~StartsWith(k2, k1 \o ".")

\* copy with case folding switched on in the new store
CopyFolding(config) == NewConfiguration(config, TRUE)

\* Configuration.copy
Copy(config) == NewConfiguration(config, FALSE)

InitFlatten ==
    /\ _lowercase \in BOOLEAN
    /\ _config = EmptyDict
    /\ heap = <<>>
    /\ _configs = <<>>
    /\ _writable = FALSE
    /\ copy = NoCopy
    /\ doppler = NoDoppler
    /\ env = NoEnv
    /\ \E d \in NestedMappings :
          /\ OrderFree(_lowercase, d)
          /\ last = [op |-> "input", d |-> d]

\* self._flatten_dict(d) on the mapping under test: d is read, never assigned
FlattenDictCall ==
    /\ last' = [op |-> "flatten", d |-> last.d, after |-> last.d,
                result |-> FlattenDict(_lowercase, last.d)]
    /\ UNCHANGED <<copy, doppler, env, _config, _lowercase, heap, _configs, _writable>>

\* Configuration(d, lowercase_keys) on the mapping under test
FlattenConstruct ==
    /\ _config' = NewConfiguration(last.d, _lowercase)._config
    /\ last' = [op |-> "construct", d |-> last.d]
    /\ UNCHANGED <<copy, doppler, env, _lowercase, heap, _configs, _writable>>

\* cfg.copy()
FlattenCopy ==
    /\ last' = [op |-> "copy", d |-> last.d, result |-> Copy(_config)]
    /\ UNCHANGED <<copy, doppler, env, _config, _lowercase, heap, _configs, _writable>>

NextFlatten ==
    \/ FlattenDictCall
    \/ FlattenConstruct
    \/ FlattenCopy

SpecFlatten == InitFlatten /\ [][NextFlatten]_vars

---------------------------------------------------------------------------
(* C14 *)

\* C14: flattening is idempotent. For a nested mapping d with flat == the
\* result of flattening it: flattening flat again gives flat; when flat stands
\* for a nested mapping, flattening that mapping gives flat; d is the same
\* after the call as before; and the copy of a store holds the stored mapping
C14_FlattenIdempotent ==
    /\ last.op = "flatten" =>
          LET flat == last.result
          IN  /\ FlattenDict(_lowercase, flat) = flat
              /\ Unflattenable(flat) =>
                    FlattenDict(_lowercase, Unflatten(flat)) = flat
              /\ last.after = last.d
    /\ FlattenDict(_lowercase, _config) = _config
    /\ last.op = "copy" => last.result._config = _config

\* a mapping nested three levels deep next to a second branch was flattened
C14_Witness ==
    /\ last.op = "flatten"
    /\ \E k \in DOMAIN last.d :
          /\ IsDict(last.d[k])
          /\ \E ki \in DOMAIN last.d[k].d : IsDict(last.d[k].d[ki])
    /\ Cardinality(DOMAIN last.result) > 1
    /\ Unflattenable(last.result)
    /\ Unflatten(last.result) # last.result

---------------------------------------------------------------------------
(* keys(), values() and items() of a Configuration *)

\* a store under test for the views holds at most this many keys
MaxViewKeys == 2

\* what dict.items() and dict.values() return, kept with the dict they view
ItemsView(d) == [t |-> "items", d |-> d]
ValuesView(d) == [t |-> "values", d |-> d]

\* Configuration.items
Items(lowercase, config, levels) ==
    LET literal == GetItem(lowercase, config, "items")
    IN  IF ~IsRaise(literal) THEN literal
        ELSE LET keys == IterKeys(Keys(lowercase, config, levels))
             IN  IF IsRaise(keys) THEN keys
                 ELSE ItemsView([k \in keys.items |->
                                    GetSubset(lowercase, config, k)])

\* dict(obj) for what items() returned
DictOf(obj) ==
    IF IsRaise(obj) THEN obj
    ELSE IF obj.t = "items" THEN Dict(obj.d)
    ELSE IF IsConfiguration(obj)
         THEN DictUpdateFromConfiguration(Dict(EmptyDict), obj)
    ELSE IF IsDict(obj) THEN obj
    ELSE Raise("TypeError", "items")

\* Configuration.values
Values(lowercase, config, levels) ==
    LET literal == GetItem(lowercase, config, "values")
    IN  IF ~IsRaise(literal) THEN literal
        ELSE LET d == DictOf(Items(lowercase, config, levels))
             IN  IF IsRaise(d) THEN d ELSE ValuesView(d.d)

\* the levels argument: 0 stands for None
Levels == {0, 1, 2}

\* the keys of the stores under test, each with its own value
ViewKeys == {"keys", "values", "items", "keys.x", "a.b", "a.c.d"}
ViewValue(k) == Scalar(Len(k))

\* the stores under test
ViewMappings ==
    { [k \in ks |-> ViewValue(k)] :
        ks \in {s \in SUBSET ViewKeys : Cardinality(s) <= MaxViewKeys} }

InitViews ==
    /\ _lowercase \in BOOLEAN
    /\ \E m \in ViewMappings : _config = FlattenDict(_lowercase, m)
    /\ heap = <<>>
    /\ _configs = <<>>
    /\ _writable = FALSE
    /\ copy = NoCopy
    /\ doppler = NoDoppler
    /\ env = NoEnv
    /\ last = NoCall

\* cfg.keys(levels)
ViewsKeys(levels) ==
    /\ last' = [op |-> "keys", levels |-> levels,
                result |-> Keys(_lowercase, _config, levels)]
    /\ UNCHANGED <<copy, doppler, env, _config, _lowercase, heap, _configs, _writable>>

\* cfg.values(levels)
ViewsValues(levels) ==
    /\ last' = [op |-> "values", levels |-> levels,
                result |-> Values(_lowercase, _config, levels)]
    /\ UNCHANGED <<copy, doppler, env, _config, _lowercase, heap, _configs, _writable>>

\* cfg.items(levels)
ViewsItems(levels) ==
    /\ last' = [op |-> "items", levels |-> levels,
                result |-> Items(_lowercase, _config, levels)]
    /\ UNCHANGED <<copy, doppler, env, _config, _lowercase, heap, _configs, _writable>>

NextViews ==
    \/ \E levels \in Levels : ViewsKeys(levels)
    \/ \E levels \in Levels : ViewsValues(levels)
    \/ \E levels \in Levels : ViewsItems(levels)

SpecViews == InitViews /\ [][NextViews]_vars

---------------------------------------------------------------------------
(* C15 *)

\* the first `levels` segments of every stored key, the whole key for None
ComputedKeys(config, levels) ==
    {LET parts == Split(x)
     IN  IF levels = 0 THEN x
         ELSE Join(SubSeq(parts, 1, Min(levels, Len(parts)))) :
        x \in DOMAIN config}

\* each computed key with what is stored at or below it
ComputedItems(lowercase, config, levels) ==
    [k \in ComputedKeys(config, levels) |-> GetSubset(lowercase, config, k)]

\* C15 as stated: keys(), values() and items() return the value stored under
\* the literal key "keys", "values" or "items" when that key is stored, and
\* the computed view when it is absent; for keys(levels) the computed view is
\* the set of the first `levels` segments of every stored key
C15_LiteralKeyPrecedence ==
    /\ last.op = "keys" =>
          last.result = IF "keys" \in DOMAIN _config THEN _config["keys"]
                        ELSE List(ComputedKeys(_config, last.levels))
    /\ last.op = "values" =>
          last.result =
              IF "values" \in DOMAIN _config THEN _config["values"]
              ELSE ValuesView(ComputedItems(_lowercase, _config, last.levels))
    /\ last.op = "items" =>
          last.result =
              IF "items" \in DOMAIN _config THEN _config["items"]
              ELSE ItemsView(ComputedItems(_lowercase, _config, last.levels))

---------------------------------------------------------------------------
(* as_bool and get_bool *)

\* a stored string under test carries at most this many whitespace
\* characters on each side
MaxPad == 1

Str(s) == [t |-> "str", v |-> s]
Bool(b) == [t |-> "bool", v |-> b]

TRUTH_TEXT == {"t", "true", "y", "yes", "on", "1"}
FALSE_TEXT == {"f", "false", "n", "no", "off", "0", ""}

\* the characters str.strip() removes
Whitespace == {" ", "\t"}

\* str.strip()
RECURSIVE Strip(_)
Strip(s) ==
    IF Len(s) = 0 THEN s
    ELSE IF CharAt(s, 1) \in Whitespace THEN Strip(SubSeq(s, 2, Len(s)))
    ELSE IF CharAt(s, Len(s)) \in Whitespace
         THEN Strip(SubSeq(s, 1, Len(s) - 1))
    ELSE s

\* as_bool comparing the text without stripping it
AsBoolUnstripped(s) ==
    IF s = None THEN Bool(FALSE)
    ELSE IF s.t = "bool" THEN s
    ELSE IF s.t # "str" THEN Raise("ValueError", "as_bool")
    ELSE LET text == Lower(s.v)
         IN  IF text \notin TRUTH_TEXT /\ text \notin FALSE_TEXT
             THEN Raise("ValueError", "as_bool")
             ELSE Bool(text \in TRUTH_TEXT)

\* as_bool; str() of a Configuration is no boolean text
AsBool(s) ==
    IF s = None THEN Bool(FALSE)
    ELSE IF s.t = "bool" THEN s
    ELSE IF s.t # "str" THEN Raise("ValueError", "as_bool")
    ELSE LET text == Lower(Strip(s.v))
         IN  IF text \notin TRUTH_TEXT /\ text \notin FALSE_TEXT
             THEN Raise("ValueError", "as_bool")
             ELSE Bool(text \in TRUTH_TEXT)

\* Configuration.get_bool
GetBool(lowercase, config, item) ==
    LET v == GetItem(lowercase, config, item)
    IN  IF IsRaise(v) THEN v ELSE AsBool(v)

\* whitespace of at most n characters
RECURSIVE Pads(_)
Pads(n) ==
    IF n = 0 THEN {""}
    ELSE Pads(n - 1) \cup {p \o w : p \in Pads(n - 1), w \in Whitespace}

\* the texts stored, before padding
BoolWords ==
    TRUTH_TEXT \cup FALSE_TEXT
        \cup {"T", "True", "TRUE", "Y", "Yes", "YES", "On", "ON"}
        \cup {"F", "False", "FALSE", "N", "No", "NO", "Off", "OFF", "oFf"}
        \cup {"maybe", "Maybe", "2", "yes no", "tr", "of", "10", "-"}

\* the values stored under the key read
BoolValues ==
    {Str(p1 \o w \o p2) : p1 \in Pads(MaxPad), w \in BoolWords, p2 \in Pads(MaxPad)}
        \cup {Bool(TRUE), Bool(FALSE), None}

BoolPaths == {"flag", "flags"}

InitBool ==
    /\ _lowercase = FALSE
    /\ \/ \E v \in BoolValues : _config = ("flag" :> v)
       \/ \E v \in BoolValues : _config = ("flag.x" :> v)
    /\ heap = <<>>
    /\ _configs = <<>>
    /\ _writable = FALSE
    /\ copy = NoCopy
    /\ doppler = NoDoppler
    /\ env = NoEnv
    /\ last = NoCall

\* cfg.get_bool(item)
ConfigurationGetBool(item) ==
    /\ last' = [op |-> "get_bool", key |-> item,
                result |-> GetBool(_lowercase, _config, item)]
    /\ UNCHANGED <<copy, doppler, env, _config, _lowercase, heap, _configs, _writable>>

\* as_bool(s) on a stored value
AsBoolCall ==
    /\ \E k \in DOMAIN _config :
          last' = [op |-> "as_bool", s |-> _config[k],
                   result |-> AsBool(_config[k])]
    /\ UNCHANGED <<copy, doppler, env, _config, _lowercase, heap, _configs, _writable>>

NextBool ==
    \/ \E item \in BoolPaths : ConfigurationGetBool(item)
    \/ AsBoolCall

SpecBool == InitBool /\ [][NextBool]_vars

---------------------------------------------------------------------------
(* C16 *)

\* the string is the word w with whitespace on both sides
Padded(s, w) ==
    \E p1, p2 \in Pads(MaxPad) : s = p1 \o w \o p2

\* what the claim gives for the stored string s: for every word it is a
\* padding of, True, False or the failure by the lower-case form of the word
C16_Expected(s, result) ==
    \A w \in BoolWords :
       Padded(s, w) =>
          /\ Lower(w) \in TRUTH_TEXT => result = Bool(TRUE)
          /\ Lower(w) \in FALSE_TEXT => result = Bool(FALSE)
          /\ Lower(w) \notin TRUTH_TEXT \cup FALSE_TEXT =>
                (IsRaise(result) /\ result.exc = "ValueError")

\* C16: as_bool and get_bool of a stored string give True when its trimmed,
\* lower-cased form is one of t, true, y, yes, on, 1, False when it is one of
\* f, false, n, no, off, 0 or empty, and fail with ValueError for every other
\* string; "Yes" gives True, "off" False and "maybe" fails
C16_BooleanParsing ==
    /\ (last.op = "get_bool" /\ last.key \in DOMAIN _config
            /\ _config[last.key].t = "str") =>
          C16_Expected(_config[last.key].v, last.result)
    /\ (last.op = "as_bool" /\ last.s.t = "str") =>
          C16_Expected(last.s.v, last.result)
    /\ AsBool(Str("Yes")) = Bool(TRUE)
    /\ AsBool(Str("off")) = Bool(FALSE)
    /\ AsBool(Str("maybe")) = Raise("ValueError", "as_bool")
    /\ TRUTH_TEXT \cap FALSE_TEXT = {}

\* get_bool gave True for a stored string with whitespace around it and an
\* upper-case letter in it
C16_Witness ==
    /\ last.op = "get_bool"
    /\ last.result = Bool(TRUE)
    /\ last.key \in DOMAIN _config
    /\ _config[last.key].t = "str"
    /\ Strip(_config[last.key].v) # _config[last.key].v
    /\ Lower(_config[last.key].v) # _config[last.key].v

---------------------------------------------------------------------------
(* DopplerConfiguration: the cache over the Doppler service *)

\* the clock is followed up to this time
MaxTime == 4
\* cache_expiration is at most this many seconds
MaxDuration == 2

\* the cache fields of a DopplerConfiguration
Doppler(duration, expiration, cache) ==
    [t |-> "DopplerConfiguration", _cache_duration |-> duration,
     _cache_expiration |-> expiration, _cache |-> cache]

\* the cache_expiration argument of the constructor, in seconds
CacheExpirations == {None} \cup {Scalar(n) : n \in 0..MaxDuration}

\* the secrets the service holds at one time or another
ServiceValues == { ("DB" :> Scalar(1)), ("DB" :> Scalar(2)) }

\* the keys read
DopplerPaths == {"DB", "PORT"}

\* the time a query of the service takes
QueryTimes == {0, 1}

\* __init__: if cache_expiration: self._cache_duration = timedelta(seconds=...)
CacheDuration(cache_expiration) ==
    IF cache_expiration = None THEN None
    ELSE IF cache_expiration.v = 0 THEN None
    ELSE cache_expiration

\* DopplerConfiguration._reset_expiration at time now
ResetExpiration(d, now) ==
    IF d._cache_duration # None
    THEN [d EXCEPT !._cache_expiration = Scalar(now + d._cache_duration.v)]
    ELSE d

\* _is_cache_expired holding only after the expiration time has passed
IsCacheExpiredAfter(d, now) ==
    IF d._cache_expiration = None THEN FALSE
    ELSE now > d._cache_expiration.v

\* DopplerConfiguration._is_cache_expired at time now
IsCacheExpired(d, now) ==
    IF d._cache_expiration = None THEN FALSE
    ELSE now >= d._cache_expiration.v

\* DopplerConfiguration.reload: config_values is what the query returned,
\* now the time at which the query has returned
Reload(d, lowercase, config_values, now) ==
    [ResetExpiration(d, now) EXCEPT
        !._cache = Dict(FlattenDict(lowercase, config_values))]

\* the test `self._cache is None or self._is_cache_expired()` of _config
MustReload(d, now) == d._cache = None \/ IsCacheExpired(d, now)

\* what the _config property returns: (self._cache or {}).copy()
CacheCopy(d) == IF d._cache = None THEN EmptyDict ELSE d._cache.d

InitDoppler ==
    /\ _lowercase = FALSE
    /\ _config = EmptyDict
    /\ heap = <<>>
    /\ _configs = <<>>
    /\ _writable = FALSE
    /\ copy = NoCopy
    /\ \E cache_expiration \in CacheExpirations, s \in ServiceValues :
          /\ env = [now |-> 0, secrets |-> s]
          /\ doppler = Reload(Doppler(CacheDuration(cache_expiration), None, None),
                              _lowercase, s, 0)
    /\ last = NoCall

\* a second passes
Tick ==
    /\ env.now < MaxTime
    /\ env' = [env EXCEPT !.now = @ + 1]
    /\ last' = [op |-> "tick"]
    /\ UNCHANGED <<copy, _config, _lowercase, heap, _configs, _writable, doppler>>

\* the secrets held by the service are changed
ServiceChange(s) ==
    /\ s # env.secrets
    /\ env' = [env EXCEPT !.secrets = s]
    /\ last' = [op |-> "service"]
    /\ UNCHANGED <<copy, _config, _lowercase, heap, _configs, _writable, doppler>>

\* cfg.reload(), the query taking `took` seconds
DopplerReload(took) ==
    /\ env.now + took <= MaxTime
    /\ env' = [env EXCEPT !.now = @ + took]
    /\ doppler' = Reload(doppler, _lowercase, env.secrets, env'.now)
    /\ last' = [op |-> "reload", at |-> env.now, queried |-> TRUE,
                result |-> None]
    /\ UNCHANGED <<copy, _config, _lowercase, heap, _configs, _writable>>

\* cfg.get(key): as_dict() reads the _config property, which reloads first
\* when the cache is missing or expired
DopplerGet(key, took) ==
    LET queried == MustReload(doppler, env.now)
    IN  /\ ~queried => took = 0
        /\ env.now + took <= MaxTime
        /\ env' = [env EXCEPT !.now = @ + took]
        /\ doppler' = IF queried
                      THEN Reload(doppler, _lowercase, env.secrets, env'.now)
                      ELSE doppler
        /\ last' = [op |-> "get", key |-> key, at |-> env.now,
                    expiration |-> doppler._cache_expiration,
                    queried |-> queried,
                    result |-> DictGet(CacheCopy(doppler'), key, None)]
        /\ UNCHANGED <<copy, _config, _lowercase, heap, _configs, _writable>>

\* the values passed to set and update on the DopplerConfiguration
DopplerSetValues == { Scalar(9) }

\* a write reaching the cache itself, as if _config returned self._cache
WriteToConfigShared(d, written) == [d EXCEPT !._cache = Dict(written)]

\* the cache fields after a write to the mapping the _config property
\* returned: the mapping is a copy of the cache and is dropped after the call
WriteToConfig(d, written) == d

\* the cache fields once the _config property has been read at the time in
\* env: reloaded, the query having returned at time now, when the cache was
\* missing or expired
ConfigRead(now) ==
    IF MustReload(doppler, env.now)
    THEN Reload(doppler, _lowercase, env.secrets, now)
    ELSE doppler

\* cfg.update(other): self._config.update(self._flatten_dict(other))
DopplerUpdate(other, took) ==
    LET queried == MustReload(doppler, env.now)
        d == ConfigRead(env'.now)
    IN  /\ ~queried => took = 0
        /\ env.now + took <= MaxTime
        /\ env' = [env EXCEPT !.now = @ + took]
        /\ doppler' = WriteToConfig(d, Update(_lowercase, CacheCopy(d), other))
        /\ last' = [op |-> "update", other |-> other, at |-> env.now,
                    queried |-> queried, result |-> None]
        /\ UNCHANGED <<copy, _config, _lowercase, heap, _configs, _writable>>

\* cfg[key] = value: self.update({key: value})
DopplerSetItem(key, value, took) ==
    LET queried == MustReload(doppler, env.now)
        d == ConfigRead(env'.now)
    IN  /\ ~queried => took = 0
        /\ env.now + took <= MaxTime
        /\ env' = [env EXCEPT !.now = @ + took]
        /\ doppler' = WriteToConfig(d, SetItem(_lowercase, CacheCopy(d),
                                               key, value))
        /\ last' = [op |-> "setitem", key |-> key, value |-> value,
                    at |-> env.now, queried |-> queried, result |-> None]
        /\ UNCHANGED <<copy, _config, _lowercase, heap, _configs, _writable>>

\* del cfg[prefix]: the loop over self._config builds `remove`, and each
\* `del self._config[k]` reads the property again; the clock moves within
\* the call only while the service is queried, so only the first read of the
\* property can reload
DopplerDelItem(prefix, took) ==
    LET queried == MustReload(doppler, env.now)
        d == ConfigRead(env'.now)
    IN  /\ ~queried => took = 0
        /\ env.now + took <= MaxTime
        /\ env' = [env EXCEPT !.now = @ + took]
        /\ doppler' = IF DelMatches(_lowercase, CacheCopy(d), prefix) = {}
                      THEN d
                      ELSE WriteToConfig(d, DelItem(_lowercase, CacheCopy(d),
                                                    prefix))
        /\ last' = [op |-> "delitem", key |-> prefix, at |-> env.now,
                    queried |-> queried,
                    result |-> DelItemResult(_lowercase, CacheCopy(d), prefix)]
        /\ UNCHANGED <<copy, _config, _lowercase, heap, _configs, _writable>>

\* cfg.clear(): self._config.clear()
DopplerClear(took) ==
    LET queried == MustReload(doppler, env.now)
        d == ConfigRead(env'.now)
    IN  /\ ~queried => took = 0
        /\ env.now + took <= MaxTime
        /\ env' = [env EXCEPT !.now = @ + took]
        /\ doppler' = WriteToConfig(d, EmptyDict)
        /\ last' = [op |-> "clear", at |-> env.now, queried |-> queried,
                    result |-> None]
        /\ UNCHANGED <<copy, _config, _lowercase, heap, _configs, _writable>>

NextDoppler ==
    \/ Tick
    \/ \E s \in ServiceValues : ServiceChange(s)
    \/ \E took \in QueryTimes : DopplerReload(took)
    \/ \E key \in DopplerPaths, took \in QueryTimes : DopplerGet(key, took)
    \/ \E key \in DopplerPaths, value \in DopplerSetValues, took \in QueryTimes :
          DopplerSetItem(key, value, took)
    \/ \E key \in DopplerPaths, value \in DopplerSetValues, took \in QueryTimes :
          DopplerUpdate((key :> value), took)
    \/ \E prefix \in DopplerPaths, took \in QueryTimes :
          DopplerDelItem(prefix, took)
    \/ \E took \in QueryTimes : DopplerClear(took)

SpecDoppler == InitDoppler /\ [][NextDoppler]_vars

---------------------------------------------------------------------------
(* C17 *)

\* the expiration time set by a reload that returned at time now
ExpiryAfterReload(now) ==
    IF doppler._cache_duration = None THEN doppler._cache_expiration
    ELSE Scalar(now + doppler._cache_duration.v)

\* C17: a reload at time t of a DopplerConfiguration with cache duration
\* d > 0 sets the expiration time to t + d; a read before the expiration
\* time is served from the cache without a query of the service; a read at
\* or after it queries the service, stores what it returned and sets the
\* expiration time again; with cache_expiration None there is no expiration
\* time and no read after construction queries the service
C17_CacheExpiry ==
    [][/\ doppler'._cache_duration = doppler._cache_duration
       /\ last'.op = "reload" =>
             doppler'._cache_expiration = ExpiryAfterReload(env'.now)
       /\ last'.op = "get" =>
             /\ last'.queried <=>
                   /\ doppler._cache_expiration # None
                   /\ env.now >= doppler._cache_expiration.v
             /\ last'.queried =>
                   /\ doppler'._cache_expiration = ExpiryAfterReload(env'.now)
                   /\ doppler'._cache = Dict(env.secrets)
                   /\ last'.result = DictGet(env.secrets, last'.key, None)
             /\ ~last'.queried =>
                   /\ doppler' = doppler
                   /\ last'.result = DictGet(doppler._cache.d, last'.key, None)
       /\ doppler._cache_duration = None =>
             /\ doppler'._cache_expiration = None
             /\ last'.op = "get" => ~last'.queried]_vars

\* a read at exactly the expiration time queried the service, which by then
\* held other secrets than the cache, and returned the new secret
C17_Witness ==
    /\ last.op = "get"
    /\ last.queried
    /\ last.expiration = Scalar(last.at)
    /\ last.at > 0
    /\ last.key = "DB"
    /\ last.result = env.secrets["DB"]
    /\ last.result # Scalar(1)

---------------------------------------------------------------------------
(* config() and the adapters that read files *)

\* config() is called with at most this many sources
MaxSources == 2

\* the file system: env.files is the set of paths that exist, a path keeps
\* the same content whenever it exists; env.libs tells whether the yaml and
\* toml modules could be imported
JsonText == "{\"A\": {\"B\": 1}}"
IniText == "[S]\nK = v"
YamlText == "A:\n  B: 1"
TomlText == "[A]\nB = 1"

\* open(path).read() for the files under test
FileText(path) ==
    CASE path = "a.json" -> JsonText
      [] path = "b.ini" -> IniText
      [] path = "c.yaml" -> YamlText
      [] path = "d.toml" -> TomlText
      [] OTHER -> ""

\* os.walk of the directory under test: each file by its path segments
\* below the directory, with what it contains
DirFiles(path) ==
    IF path = "dir"
    THEN (<<"app", "key">> :> Str("v")) @@ (<<"top">> :> Str("t"))
    ELSE [segs \in {} |-> None]

IsFile(e, path) == path \in e.files /\ path # "dir"
IsDir(e, path) == path \in e.files /\ path = "dir"

\* json.loads / json.load for the texts under test
JsonLoads(text) ==
    IF text = JsonText THEN D1("A", D1("B", Scalar(1)))
    ELSE Raise("JSONDecodeError", text)

\* configparser.RawConfigParser.read_string, then the dict built from
\* cfg.items(): option names are lower-cased, section names are not
IniRead(text) ==
    IF text = IniText THEN D1("S.k", Str("v"))
    ELSE IF text = "" THEN Dict(EmptyDict)
    ELSE Raise("MissingSectionHeaderError", text)

\* yaml.load for the texts under test
YamlLoad(text) ==
    IF text = YamlText THEN D1("A", D1("B", Scalar(1)))
    ELSE Str(text)

\* toml.loads / toml.load for the texts under test
TomlLoads(text) ==
    IF text = TomlText THEN D1("A", D1("B", Scalar(1)))
    ELSE IF text = "" THEN Dict(EmptyDict)
    ELSE Raise("TomlDecodeError", text)

\* an open file, as passed to an adapter in place of a path
File(path) == [t |-> "file", path |-> path]

\* open(data, "rt").read(), or data.read() for an open file
ReadText(e, data) ==
    IF data.t = "file" THEN Str(FileText(data.path))
    ELSE IF IsFile(e, data.v) THEN Str(FileText(data.v))
    ELSE IF IsDir(e, data.v) THEN Raise("IsADirectoryError", data.v)
    ELSE Raise("FileNotFoundError", data.v)

\* Configuration(loaded, lowercase_keys=...) when loaded did not raise
Loaded(loaded, lowercase_keys) ==
    IF IsRaise(loaded) THEN loaded
    ELSE NewConfiguration(loaded.d, lowercase_keys)

\* config_from_json
ConfigFromJson(e, data, read_from_file, lowercase_keys) ==
    IF read_from_file
    THEN LET text == ReadText(e, data)
         IN  IF IsRaise(text) THEN text
             ELSE IF data.t = "str"
                  THEN Loaded(JsonLoads(text.v), FALSE)
                  ELSE Loaded(JsonLoads(text.v), lowercase_keys)
    ELSE IF data.t = "file" THEN Raise("TypeError", "data")
    ELSE Loaded(JsonLoads(data.v), lowercase_keys)

\* config_from_ini
ConfigFromIni(e, data, read_from_file, lowercase_keys) ==
    IF read_from_file
    THEN LET text == ReadText(e, data)
         IN  IF IsRaise(text) THEN text
             ELSE Loaded(IniRead(text.v), lowercase_keys)
    ELSE IF data.t = "file" THEN Raise("TypeError", "data")
    ELSE Loaded(IniRead(data.v), lowercase_keys)

\* config_from_yaml
ConfigFromYaml(e, data, read_from_file, lowercase_keys) ==
    LET text == IF read_from_file /\ data.t = "str" THEN ReadText(e, data)
                ELSE IF data.t = "file" THEN ReadText(e, data)
                ELSE data
    IN  IF IsRaise(text) THEN text
        ELSE LET loaded == YamlLoad(text.v)
             IN  IF ~IsDict(loaded)
                 THEN Raise("ValueError", "Data should be a dictionary")
                 ELSE Loaded(loaded, lowercase_keys)

\* config_from_toml
ConfigFromToml(e, data, read_from_file, lowercase_keys) ==
    IF read_from_file
    THEN LET text == ReadText(e, data)
         IN  IF IsRaise(text) THEN text
             ELSE Loaded(TomlLoads(text.v), lowercase_keys)
    ELSE IF data.t = "file" THEN Raise("TypeError", "data")
    ELSE Loaded(TomlLoads(data.v), lowercase_keys)

\* config_from_path: the key of a file is made of its path segments below
\* the directory, without the first remove_level ones
ConfigFromPath(e, path, remove_level, lowercase_keys) ==
    IF ~IsDir(e, path) THEN Raise("FileNotFoundError", path)
    ELSE LET files == DirFiles(path)
             key(segs) == Join(SubSeq(segs, remove_level + 1, Len(segs)))
             result == [k \in {key(segs) : segs \in DOMAIN files} |->
                           files[CHOOSE segs \in DOMAIN files : key(segs) = k]]
         IN  NewConfiguration(result, lowercase_keys)

\* config_from_python: no module path and no module name under test exists
ConfigFromPython(e, module, lowercase_keys) ==
    IF Len(module) >= 3 /\ SubSeq(module, Len(module) - 2, Len(module)) = ".py"
    THEN Raise("FileNotFoundError", module)
    ELSE Raise("ModuleNotFoundError", module)

\* config_from_env: no environment variable under test carries the prefix
ConfigFromEnv(e, prefix, lowercase_keys) ==
    NewConfiguration(EmptyDict, lowercase_keys)

\* a tuple source: its first item is the type, the others the parameters
SourceTuple(type, args) == [t |-> "tuple", type |-> type, args |-> args]

\* what an ignored source leaves in place of an instance
Skipped == [t |-> "skipped"]

\* s.endswith(suffix)
EndsWith(s, suffix) ==
    Len(s) >= Len(suffix) /\ SubSeq(s, Len(s) - Len(suffix) + 1, Len(s)) = suffix

Digits == "0123456789"

\* the character is one of the characters of chars
CharIn(c, chars) == \E i \in 1..Len(chars) : CharAt(chars, i) = c

\* s.isidentifier(), for ASCII strings
IsIdentifier(s) ==
    /\ Len(s) > 0
    /\ ~CharIn(CharAt(s, 1), Digits)
    /\ \A i \in 1..Len(s) :
          \/ CharIn(CharAt(s, i), UpperCase)
          \/ CharIn(CharAt(s, i), LowerCase)
          \/ CharIn(CharAt(s, i), Digits)
          \/ CharAt(s, i) = "_"

\* config(): the tuple a string source stands for, or the ValueError
SourceFromString(e, config_, prefix, remove_level) ==
    IF EndsWith(config_, ".py")
    THEN SourceTuple("python", <<Str(config_), Str(prefix)>>)
    ELSE IF EndsWith(config_, ".json")
    THEN SourceTuple("json", <<Str(config_), Bool(TRUE)>>)
    ELSE IF e.yaml /\ EndsWith(config_, ".yaml")
    THEN SourceTuple("yaml", <<Str(config_), Bool(TRUE)>>)
    ELSE IF e.toml /\ EndsWith(config_, ".toml")
    THEN SourceTuple("toml", <<Str(config_), Bool(TRUE)>>)
    ELSE IF EndsWith(config_, ".ini")
    THEN SourceTuple("ini", <<Str(config_), Bool(TRUE)>>)
    ELSE IF IsDir(e, config_)
    THEN SourceTuple("path", <<Str(config_), Scalar(remove_level)>>)
    ELSE IF config_ \in {"env", "environment"}
    THEN SourceTuple("env", <<Str(prefix)>>)
    ELSE IF \A i \in 1..Len(Split(config_)) : IsIdentifier(Split(config_)[i])
    THEN SourceTuple("python", <<Str(config_), Str(prefix)>>)
    ELSE Raise("ValueError", "Cannot determine config type")

\* the try/except FileNotFoundError around an adapter
IgnoreMissing(instance, ignore_missing_paths) ==
    IF IsRaise(instance) /\ instance.exc = "FileNotFoundError"
           /\ ignore_missing_paths
    THEN Skipped
    ELSE instance

\* the read_from_file parameter of a tuple source, False when not given
ReadFromFile(args) == Len(args) >= 2 /\ args[2] = Bool(TRUE)

\* config(): the instance made from a tuple source
SourceInstance(e, config_, prefix, lowercase_keys, ignore_missing_paths) ==
    LET type_ == config_.type
        args == config_.args
    IN  IF type_ = "dict"
        THEN NewConfiguration(args[1].d, lowercase_keys)
        ELSE IF type_ \in {"env", "environment"}
        THEN ConfigFromEnv(e, IF Len(args) > 0 THEN args[1].v ELSE prefix,
                           lowercase_keys)
        ELSE IF type_ = "python"
        THEN IF Len(args) < 1
             THEN Raise("ValueError", "No path specified for python module")
             ELSE ConfigFromPython(e, args[1].v, lowercase_keys)
        ELSE IF type_ = "json"
        THEN IgnoreMissing(ConfigFromJson(e, args[1], ReadFromFile(args),
                                          lowercase_keys),
                           ignore_missing_paths)
        ELSE IF e.yaml /\ type_ = "yaml"
        THEN IgnoreMissing(ConfigFromYaml(e, args[1], ReadFromFile(args),
                                          lowercase_keys),
                           ignore_missing_paths)
        ELSE IF e.toml /\ type_ = "toml"
        THEN IgnoreMissing(ConfigFromToml(e, args[1], ReadFromFile(args),
                                          lowercase_keys),
                           ignore_missing_paths)
        ELSE IF type_ = "ini"
        THEN IgnoreMissing(ConfigFromIni(e, args[1], ReadFromFile(args),
                                         lowercase_keys),
                           ignore_missing_paths)
        ELSE IF type_ = "path"
        THEN IgnoreMissing(ConfigFromPath(e, args[1].v,
                                          IF Len(args) >= 2 THEN args[2].v
                                          ELSE 1,
                                          lowercase_keys),
                           ignore_missing_paths)
        ELSE Raise("ValueError", "Unknown configuration type")

\* config(): one pass of the loop over configs
ConfigOne(e, config_, prefix, remove_level, lowercase_keys, ignore_missing_paths) ==
    IF IsDict(config_) THEN NewConfiguration(config_.d, lowercase_keys)
    ELSE LET source == IF config_.t = "str"
                       THEN SourceFromString(e, config_.v, prefix, remove_level)
                       ELSE config_
         IN  IF IsRaise(source) THEN source
             ELSE SourceInstance(e, source, prefix, lowercase_keys,
                                 ignore_missing_paths)

\* ConfigurationSet(*configs)
NewConfigurationSet(configs) ==
    IF Len(configs) = 0
    THEN Raise("ValueError", "configs should be a non-empty iterable")
    ELSE [t |-> "ConfigurationSet", _configs |-> configs, _writable |-> FALSE]

\* config(): the loop over the remaining configs, then the ConfigurationSet
RECURSIVE ConfigLoop(_, _, _, _, _, _, _)
ConfigLoop(e, configs, instances, prefix, remove_level, lowercase_keys, ignore_missing_paths) ==
    IF Len(configs) = 0 THEN NewConfigurationSet(instances)
    ELSE LET instance == ConfigOne(e, Head(configs), prefix, remove_level,
                                   lowercase_keys, ignore_missing_paths)
         IN  IF IsRaise(instance) THEN instance
             ELSE ConfigLoop(e, Tail(configs),
                             IF instance = Skipped THEN instances
                             ELSE Append(instances, instance),
                             prefix, remove_level, lowercase_keys,
                             ignore_missing_paths)

\* config()
Config(e, configs, prefix, remove_level, lowercase_keys, ignore_missing_paths) ==
    ConfigLoop(e, configs, <<>>, prefix, remove_level, lowercase_keys,
               ignore_missing_paths)

\* the paths that may exist
AllPaths == {"a.json", "b.ini", "c.yaml", "d.toml", "dir"}

\* the sources passed to config()
SourceChoices ==
    { Str("a.json"), Str("b.ini"), Str("c.yaml"), Str("d.toml"), Str("dir"),
      SourceTuple("path", <<Str("dir")>>) }

\* the lists of sources passed to config()
RECURSIVE SourceLists(_)
SourceLists(n) ==
    IF n = 0 THEN {<<>>}
    ELSE SourceLists(n - 1)
            \cup {Append(l, c) : l \in SourceLists(n - 1), c \in SourceChoices}

\* the data passed to config_from_json: a path, an open file, a JSON text
JsonData == { Str("a.json"), File("a.json"), Str(JsonText) }

\* the files that exist and the modules that could be imported are fixed
\* from the start, and so are the arguments of the call under test; yaml and
\* toml are both installed or both missing
InitConfig ==
    /\ _lowercase = FALSE
    /\ _config = EmptyDict
    /\ heap = <<>>
    /\ _configs = <<>>
    /\ _writable = FALSE
    /\ copy = NoCopy
    /\ doppler = NoDoppler
    /\ \E files \in SUBSET AllPaths, libs \in BOOLEAN :
          env = [files |-> files, yaml |-> libs, toml |-> libs]
    /\ \E configs \in SourceLists(MaxSources), lowercase_keys \in BOOLEAN,
          ignore_missing_paths \in BOOLEAN :
          last = [op |-> "input", configs |-> configs,
                  lowercase_keys |-> lowercase_keys,
                  ignore_missing_paths |-> ignore_missing_paths]

\* config(*configs, lowercase_keys=..., ignore_missing_paths=...)
ConfigCall ==
    /\ last' = [last EXCEPT !.op = "config"] @@
               [result |-> Config(env, last.configs, "", 1, last.lowercase_keys,
                                  last.ignore_missing_paths)]
    /\ UNCHANGED <<copy, _config, _lowercase, heap, _configs, _writable, doppler, env>>

\* config_from_json(data, read_from_file, lowercase_keys=...); an open file
\* was opened while the path existed
ConfigFromJsonCall(data, read_from_file) ==
    /\ data.t = "file" => IsFile(env, data.path)
    /\ last' = [op |-> "config_from_json", configs |-> last.configs,
                lowercase_keys |-> last.lowercase_keys,
                ignore_missing_paths |-> last.ignore_missing_paths,
                data |-> data, read_from_file |-> read_from_file,
                result |-> ConfigFromJson(env, data, read_from_file,
                                          last.lowercase_keys)]
    /\ UNCHANGED <<copy, _config, _lowercase, heap, _configs, _writable, doppler, env>>

NextConfig ==
    \/ ConfigCall
    \/ \E data \in JsonData, read_from_file \in BOOLEAN :
          ConfigFromJsonCall(data, read_from_file)

SpecConfig == InitConfig /\ [][NextConfig]_vars

---------------------------------------------------------------------------
(* C18 *)

\* the path a source names
SourcePath(source) ==
    IF source.t = "str" THEN source.v ELSE source.args[1].v

\* the sources of the list that exist, in the order of the list
ExistingSources(configs) ==
    SelectSeq(configs, LAMBDA c : SourcePath(c) \in env.files)

\* C18 as stated: config(..., ignore_missing_paths=True) on a list of json,
\* yaml, toml, ini and path sources of which some or all do not exist does
\* not fail and returns the view built from the sources that exist (the yaml
\* and toml modules being installed)
C18_IgnoreMissingPaths ==
    (last.op = "config" /\ last.ignore_missing_paths /\ env.yaml /\ env.toml
        /\ Len(last.configs) > 0) =>
       LET existing == ExistingSources(last.configs)
       IN  /\ ~IsRaise(last.result)
           /\ last.result._configs =
                 [i \in 1..Len(existing) |->
                     ConfigOne(env, existing[i], "", 1, last.lowercase_keys,
                               TRUE)]

---------------------------------------------------------------------------
(* C19 *)

\* C19 as stated: config_from_json with lowercase_keys=True returns a store
\* whose keys are all lower case, for a file path and for an open file with
\* read_from_file, and for a JSON text
C19_JsonLowercaseKeys ==
    (last.op = "config_from_json" /\ last.lowercase_keys
        /\ ~IsRaise(last.result)) =>
       AllKeysLower(last.result._config)

---------------------------------------------------------------------------
(* C20 *)

\* what a read gave: the scalar, the content of the sub-tree, or the error
ReadOutcome(r) ==
    IF IsRaise(r) THEN [t |-> "raise", exc |-> r.exc]
    ELSE IF IsConfiguration(r) THEN [t |-> "subtree", content |-> r._config]
    ELSE r

\* C20 as stated: for all layer contents and every key path p, reading p
\* from the ConfigurationSet gives the same scalar, the same sub-tree content
\* or the same KeyError as reading p from Configuration(view.as_dict()), the
\* store behind the view's keys(), values() and items()
C20_ReadMatchesAsDict ==
    \A p \in SetPaths :
       ReadOutcome(SetGetItem(p)) =
          ReadOutcome(GetItem(FALSE, AsDict(Layers), p))

---------------------------------------------------------------------------
(* C21 *)

\* C21 as stated: after any sequence of operations, for every key k and
\* scalar v, view[k] = v followed at once by view.get(k) returns v, whatever
\* the lower-priority layers and the writable layer held before
C21_ReadYourWrites ==
    [][(last'.op = "setitem" /\ IsScalar(last'.value)) =>
          SetGet(Layers', last'.key, None) = last'.value]_vars

---------------------------------------------------------------------------
(* A ConfigurationSet and its copy *)

\* the fields of a second ConfigurationSet object
ConfigurationSet(configs, writable) ==
    [t |-> "ConfigurationSet", _configs |-> configs, _writable |-> writable]

\* the layers of the copy, highest priority first
CopyLayers == [i \in 1..Len(copy._configs) |-> heap[copy._configs[i]]]

\* the heap after _writable_config called on the copy
CopyWritableHeap ==
    IF ~copy._writable
    THEN LET lowercase == Len(copy._configs) > 0
                             /\ heap[copy._configs[1]]._lowercase
         IN  Append(heap, NewConfiguration(EmptyDict, lowercase))
    ELSE heap

\* the list of the copy after _writable_config called on it
CopyWritableConfigs ==
    IF ~copy._writable THEN <<NewId>> \o copy._configs ELSE copy._configs

\* c = view.copy(): ConfigurationSet(*self._configs) makes a new list of the
\* same Configuration objects and starts not writable
SetCopy ==
    /\ copy = NoCopy
    /\ copy' = ConfigurationSet(_configs, FALSE)
    /\ last' = [op |-> "copy", result |-> copy']
    /\ UNCHANGED <<_config, _lowercase, heap, _configs, _writable, doppler, env>>

\* c[key] = value
CopySetItem(key, value) ==
    LET h == CopyWritableHeap
        cfg == CopyWritableConfigs[1]
        new == SetItem(h[cfg]._lowercase, h[cfg]._config, key, value)
    IN  /\ copy # NoCopy
        /\ OrderFree(h[cfg]._lowercase, (key :> value))
        /\ Cardinality(DOMAIN new) <= MaxWritableKeys
        /\ heap' = [h EXCEPT ![cfg]._config = new]
        /\ copy' = ConfigurationSet(CopyWritableConfigs, TRUE)
        /\ last' = [op |-> "setitem", on |-> "copy", key |-> key,
                    value |-> value, result |-> None]
        /\ UNCHANGED <<_config, _lowercase, _configs, _writable, doppler, env>>

\* c.update(other)
CopyUpdate(other) ==
    LET h == CopyWritableHeap
        cfg == CopyWritableConfigs[1]
        new == Update(h[cfg]._lowercase, h[cfg]._config, other)
    IN  /\ copy # NoCopy
        /\ OrderFree(h[cfg]._lowercase, other)
        /\ Cardinality(DOMAIN new) <= MaxWritableKeys
        /\ heap' = [h EXCEPT ![cfg]._config = new]
        /\ copy' = ConfigurationSet(CopyWritableConfigs, TRUE)
        /\ last' = [op |-> "update", on |-> "copy", other |-> other,
                    result |-> None]
        /\ UNCHANGED <<_config, _lowercase, _configs, _writable, doppler, env>>

\* del c[prefix]
CopyDelItem(prefix) ==
    LET removed == \E i \in 1..Len(copy._configs) :
                      ~IsRaise(DelItemResult(CopyLayers[i]._lowercase,
                                             CopyLayers[i]._config, prefix))
    IN  /\ copy # NoCopy
        /\ heap' = [id \in DOMAIN heap |->
                       IF id \in Range(copy._configs)
                       THEN [heap[id] EXCEPT !._config =
                                DelItem(heap[id]._lowercase, @, prefix)]
                       ELSE heap[id]]
        /\ last' = [op |-> "delitem", on |-> "copy", key |-> prefix,
                    result |-> IF removed THEN None ELSE Raise("KeyError", "")]
        /\ UNCHANGED <<_config, _lowercase, _configs, _writable, copy,
                       doppler, env>>

\* c.clear()
CopyClear ==
    /\ copy # NoCopy
    /\ heap' = [id \in DOMAIN heap |->
                   IF id \in Range(copy._configs)
                   THEN [heap[id] EXCEPT !._config = EmptyDict]
                   ELSE heap[id]]
    /\ last' = [op |-> "clear", on |-> "copy", result |-> None]
    /\ UNCHANGED <<_config, _lowercase, _configs, _writable, copy,
                   doppler, env>>

\* the key paths passed to set and delete on the view and on its copy
CopyPaths == {"a", "a.b"}

\* the values passed to set on the view and on its copy
CopySetValues == {Scalar(5)}

NextCopy ==
    \/ SetCopy
    \/ \E key \in CopyPaths, value \in CopySetValues : SetSetItem(key, value)
    \/ \E other \in SetUpdateMappings : SetUpdate(other)
    \/ \E prefix \in CopyPaths : SetDelItem(prefix)
    \/ SetClear
    \/ \E key \in CopyPaths, value \in CopySetValues : CopySetItem(key, value)
    \/ \E other \in SetUpdateMappings : CopyUpdate(other)
    \/ \E prefix \in CopyPaths : CopyDelItem(prefix)
    \/ CopyClear

SpecCopy == InitSet /\ [][NextCopy]_vars

---------------------------------------------------------------------------
(* C22 *)

\* the call recorded was made on the copy
OnCopy(call) == "on" \in DOMAIN call /\ call.on = "copy"

\* C22 as stated: for a view v and c = v.copy(), no set, update, delete or
\* clear applied to c changes v.as_dict(), and none applied to v changes
\* c.as_dict()
C22_CopyIndependence ==
    [][copy # NoCopy =>
          IF OnCopy(last')
          THEN AsDict(Layers') = AsDict(Layers)
          ELSE AsDict(CopyLayers') = AsDict(CopyLayers)]_vars

---------------------------------------------------------------------------
(* C23 *)

\* the calls that write to a Configuration
DopplerWrites == {"setitem", "update", "delitem", "clear"}

=============================================================================
